---- MODULE Spec2Model ----
(***************************************************************************)
(* A model of macos/DoclingMenuBar/patches/sitecustomize.py: the start-up  *)
(* patch that wraps docling_serve.gradio_ui.process_url / process_file so  *)
(* that a returned task id (a canonical UUID string) is echoed on standard *)
(* output as "docling_task_id=<uuid>".                                     *)
(*                                                                         *)
(* Python values are records [type, v]: the name of the value's class and  *)
(* its content as a sequence of one-character strings.  Standard output is *)
(* the stream of characters written to it.  It is taken to be an open,     *)
(* writable text stream: a write never fails.                              *)
(***************************************************************************)
EXTENDS Integers, Sequences, FiniteSets, TLC

\* ------------------------------------------------------------------ bounds
\* Host threads that may be inside a module function at the same time.
NumThreads == 2
\* Calls the host makes in one run, over all threads.
MaxCalls == 2
\* Times the patch procedure is applied in the re-application specification.
MaxPatchRuns == 2

Threads == 1..NumThreads

\* -------------------------------------------------------- TASK_ID_PATTERN
Digits == {"0", "1", "2", "3", "4", "5", "6", "7", "8", "9"}

\* The character class [0-9a-fA-F].
HexClass == Digits \cup {"a", "b", "c", "d", "e", "f"} \cup {"A", "B", "C", "D", "E", "F"}

\* The compiled pattern: a sequence of atoms, each a character class and the
\* exact number of repetitions {n} it must match.
TASK_ID_PATTERN ==
    << [cls |-> HexClass, n |-> 8],  [cls |-> {"-"}, n |-> 1],
       [cls |-> HexClass, n |-> 4],  [cls |-> {"-"}, n |-> 1],
       [cls |-> HexClass, n |-> 4],  [cls |-> {"-"}, n |-> 1],
       [cls |-> HexClass, n |-> 4],  [cls |-> {"-"}, n |-> 1],
       [cls |-> HexClass, n |-> 12] >>

\* One atom matched at position pos (1-based) of s: the position after the
\* match, or -1 when the atom does not match there.
RECURSIVE MatchAtom(_, _, _, _)
MatchAtom(s, pos, cls, n) ==
    IF n = 0 THEN pos
    ELSE IF pos <= Len(s) /\ s[pos] \in cls THEN MatchAtom(s, pos + 1, cls, n - 1)
    ELSE -1

\* The atoms of pat matched one after another from position pos of s.
RECURSIVE MatchSeq(_, _, _)
MatchSeq(s, pos, pat) ==
    IF pat = <<>> THEN pos
    ELSE LET e == MatchAtom(s, pos, Head(pat).cls, Head(pat).n)
         IN  IF e = -1 THEN -1 ELSE MatchSeq(s, e, Tail(pat))

\* A faulty variant: re.match, which accepts any string the pattern is a
\* prefix of.
prefixmatch(s) == MatchSeq(s, 1, TASK_ID_PATTERN) # -1

\* TASK_ID_PATTERN.fullmatch(s): the pattern matches from the first character
\* and the match ends at the end of s.
fullmatch(s) == MatchSeq(s, 1, TASK_ID_PATTERN) = Len(s) + 1

\* ------------------------------------------------------------ Python values
None == [type |-> "NoneType", v |-> <<>>]

Str(chars) == [type |-> "str", v |-> chars]

\* isinstance(result, str)
IsInstanceStr(result) == result.type = "str"

Tag == <<"d", "o", "c", "l", "i", "n", "g", "_", "t", "a", "s", "k", "_", "i", "d", "=">>

UuidLower == <<"3", "f", "a", "8", "5", "f", "6", "4", "-", "5", "7", "1", "7", "-", "4", "5", "6", "2", "-", "b", "3", "f", "c", "-", "2", "c", "9", "6", "3", "f", "6", "6", "a", "f", "a", "6">>

UuidUpper == <<"3", "F", "A", "8", "5", "F", "6", "4", "-", "5", "7", "1", "7", "-", "4", "5", "6", "2", "-", "B", "3", "F", "C", "-", "2", "C", "9", "6", "3", "F", "6", "6", "A", "F", "A", "6">>

NotAUuid == <<"n", "o", "t", "-", "a", "-", "u", "u", "i", "d">>

\* The right length and hyphens, and a last character that is no hexadecimal
\* digit.
NonHex == [UuidLower EXCEPT ![36] = "g"]

\* The values an original function returns in the model.
ReturnValues ==
    { Str(UuidLower), Str(UuidUpper),
      Str(NotAUuid), Str(NonHex), Str(UuidLower \o <<"\n">>), Str(<<" ">> \o UuidLower),
      None,
      [type |-> "int", v |-> <<"4", "2">>],
      [type |-> "list", v |-> UuidLower] }

\* The exceptions an original function raises in the model: one that is an
\* Exception and one that is only a BaseException.
RaisedExceptions == {"ValueError", "KeyboardInterrupt"}

\* The classes that derive from Exception, among those the model raises.
ExceptionSubclasses == {"ModuleNotFoundError", "ImportError", "RuntimeError", "ValueError"}

\* The argument lists the host calls with: positional arguments and keyword
\* arguments (name, value) in call order.
CallArgs ==
    { [args |-> <<"https://example.org/a.pdf">>, kwargs |-> <<>>],
      [args |-> <<"a.pdf", "md">>, kwargs |-> << <<"do_ocr", "True">> >>] }

NoArgs == [args |-> <<>>, kwargs |-> <<>>]

\* ------------------------------------------------------------------- state
VARIABLES
    importOutcome,  \* what "from docling_serve import gradio_ui" does
    gradio_ui,      \* the module's namespace: attribute name -> binding
    gradio_ui0,     \* the namespace as it was before the script ran
    pc,             \* the script: "start", "loaded" or "raised"
    escaped,        \* the exception that left the script, or "none"
    patchRuns,      \* calls of _patch_gradio_ui so far
    setattrs,       \* per attribute name, the setattr calls made on it
    stdout,         \* the characters written to standard output
    thr,            \* per host thread, the call it is making
    calls,          \* calls started by the host
    tagsDue         \* over the completed calls, the tagged lines they owed

vars == << importOutcome, gradio_ui, gradio_ui0, pc, escaped, patchRuns,
           setattrs, stdout, thr, calls, tagsDue >>

AttrNames == {"process_url", "process_file", "wait_task_finish"}

\* The functions of the module the host calls.
CalledNames == {"process_url", "process_file"}

\* A binding of the module: a function defined by the library (layers = 0),
\* that function under layers wrappers, or a value that is not callable.
Function(name) == [callable |-> TRUE, target |-> name, layers |-> 0]

NotCallable == [callable |-> FALSE, target |-> "None", layers |-> 0]

\* The outcomes of the import statement.
ImportOutcomes == {"ok", "ModuleNotFoundError", "RuntimeError", "KeyboardInterrupt"}

\* The namespaces the module may have when the script runs: each patched
\* name is missing, bound to a value that is not callable, or bound to the
\* library's function; a third function is always there.
Namespaces ==
    { m \in UNION { [D \cup {"wait_task_finish"} -> {Function(n) : n \in AttrNames} \cup {NotCallable}]
                    : D \in SUBSET {"process_url", "process_file"} } :
        /\ m["wait_task_finish"].callable
        /\ \A n \in DOMAIN m : m[n].callable => m[n].target = n }

NoOutcome == [kind |-> "none", val |-> None]

Idle ==
    [ pc |-> "idle", name |-> "", layers |-> 0, depth |-> 0, runsAtCall |-> 0,
      sent |-> NoArgs, invocations |-> <<>>,
      origOut |-> NoOutcome, out |-> NoOutcome, frameResult |-> NoOutcome,
      frameMatches |-> 0, frameWrote |-> <<>>, wrote |-> <<>> ]

Init ==
    /\ importOutcome \in ImportOutcomes
    /\ gradio_ui \in Namespaces
    /\ gradio_ui0 = gradio_ui
    /\ pc = "start"
    /\ escaped = "none"
    /\ patchRuns = 0
    /\ setattrs = [n \in AttrNames |-> 0]
    /\ stdout = <<>>
    /\ thr = [t \in Threads |-> Idle]
    /\ calls = 0
    /\ tagsDue = 0

\* ------------------------------------------------------------ _wrap_task_id
\* A faulty variant: a function that is already a wrapper is not wrapped again.
WrapOnce(func) == IF func.layers > 0 THEN func ELSE [func EXCEPT !.layers = 1]

\* _wrap_task_id(func): a new wrapper closed over func.
_wrap_task_id(func) == [func EXCEPT !.layers = @ + 1]

\* A faulty variant: the keyword arguments are not passed on.
WrapperCallsNoKwargs(a) == << [args |-> a.args, kwargs |-> <<>>] >>

\* The calls of func the wrapper body makes, each with the arguments it
\* passes: one call, func(*args, **kwargs).
WrapperCalls(a) == << [args |-> a.args, kwargs |-> a.kwargs] >>

\* The calls that reach the library's function when a binding under the given
\* number of wrappers is called with a.
RECURSIVE Deliver(_, _)
Deliver(a, layers) ==
    IF layers = 0 THEN << a >>
    ELSE LET inner == WrapperCalls(a)
             RECURSIVE Each(_)
             Each(i) == IF i > Len(inner) THEN <<>>
                        ELSE Deliver(inner[i], layers - 1) \o Each(i + 1)
         IN  Each(1)

\* The condition of the wrapper's if statement.
ShouldPrint(result) == IsInstanceStr(result) /\ fullmatch(result.v)

\* The pattern matches the condition performs: none when isinstance fails
\* (the and short-circuits), one otherwise.
MatchesPerformed(result) == IF IsInstanceStr(result) THEN 1 ELSE 0

\* The text print() writes first: f"docling_task_id={result}".
Text(result) == Tag \o result.v

\* The text print() writes last: its end argument, a newline by default.
End == << "\n" >>

\* A faulty variant: the wrapper returns what print() returned.
ReturnPrinted(result) == IF ShouldPrint(result) THEN None ELSE result

\* The wrapper's return statement: return result.
ReturnValue(result) == result

\* A faulty variant: the wrapper catches the exception and returns None.
SwallowRaise(o) == [kind |-> "return", val |-> None]

\* The wrapper has no handler: an exception raised by func leaves the wrapper
\* as it is.
OnRaise(o) == o

\* file.write(chars) on standard output.
Write(stream, chars) == stream \o chars

\* ---------------------------------------------------------- _patch_gradio_ui
\* A faulty variant: only import errors are caught.
ImportCaughtNarrow(exc) == exc \in {"ModuleNotFoundError", "ImportError"}

\* except Exception: the handler takes every instance of Exception.
ImportCaught(exc) == exc \in ExceptionSubclasses

\* A faulty variant: the first name is patched twice.
PatchNamesTwice == << "process_url", "process_file", "process_url" >>

\* A faulty variant: a third function of the module is patched as well.
PatchNamesMore == << "process_url", "process_file", "wait_task_finish" >>

\* The names the for loop goes through.
PatchNames == << "process_url", "process_file" >>

\* A faulty variant: callable() is not asked.
ShouldWrapAny(mod, name) == name \in DOMAIN mod

\* hasattr(gradio_ui, name) and callable(getattr(gradio_ui, name))
ShouldWrap(mod, name) == name \in DOMAIN mod /\ mod[name].callable

\* setattr(gradio_ui, name, value)
SetAttr(mod, name, value) ==
    [n \in DOMAIN mod \cup {name} |-> IF n = name THEN value ELSE mod[n]]

\* The for loop over names, on st = [mod, sets]: the namespace and the count
\* of setattr calls per name.
RECURSIVE PatchLoop(_, _)
PatchLoop(st, names) ==
    IF names = <<>> THEN st
    ELSE LET name == Head(names)
             next == IF ShouldWrap(st.mod, name)
                     THEN [mod  |-> SetAttr(st.mod, name, _wrap_task_id(st.mod[name])),
                           sets |-> [st.sets EXCEPT ![name] = @ + 1]]
                     ELSE st
         IN  PatchLoop(next, Tail(names))

\* One run of _patch_gradio_ui() from the given namespace and counts: the
\* namespace and counts after it, and the exception that leaves it ("none"
\* when it returns).
_patch_gradio_ui(mod, sets) ==
    IF importOutcome = "ok"
    THEN [st |-> PatchLoop([mod |-> mod, sets |-> sets], PatchNames), raised |-> "none"]
    ELSE IF ImportCaught(importOutcome)
    THEN [st |-> [mod |-> mod, sets |-> sets], raised |-> "none"]
    ELSE [st |-> [mod |-> mod, sets |-> sets], raised |-> importOutcome]

\* The script is loaded: its last line calls _patch_gradio_ui().
Load ==
    /\ pc = "start"
    /\ LET r == _patch_gradio_ui(gradio_ui, setattrs)
       IN  /\ gradio_ui' = r.st.mod
           /\ setattrs' = r.st.sets
           /\ escaped' = r.raised
           /\ pc' = IF r.raised = "none" THEN "loaded" ELSE "raised"
    /\ patchRuns' = patchRuns + 1
    /\ UNCHANGED << importOutcome, gradio_ui0, stdout, thr, calls, tagsDue >>

\* The patch procedure is applied again to the patched module.
PatchAgain ==
    /\ pc = "loaded"
    /\ patchRuns < MaxPatchRuns
    /\ LET r == _patch_gradio_ui(gradio_ui, setattrs)
       IN  /\ gradio_ui' = r.st.mod
           /\ setattrs' = r.st.sets
           /\ escaped' = r.raised
           /\ pc' = IF r.raised = "none" THEN "loaded" ELSE "raised"
    /\ patchRuns' = patchRuns + 1
    /\ UNCHANGED << importOutcome, gradio_ui0, stdout, thr, calls, tagsDue >>

\* ------------------------------------------------------------------- calls
\* Where a call goes when a frame has been left with outcome o and depth
\* wrapper frames remain on the stack.
After(o, depth) ==
    IF depth = 0 THEN "done" ELSE IF o.kind = "raise" THEN "raise" ELSE "check"

\* Host thread t calls gradio_ui.<name>(...) with arguments a, which it can
\* once the script has run and when the module exists.  The binding is
\* looked up at the call; each wrapper on the way calls the function it
\* closes over, until the library's own function runs.
Call(t, name, a) ==
    /\ pc = "loaded"
    /\ importOutcome = "ok"
    /\ thr[t].pc = "idle"
    /\ calls < MaxCalls
    /\ name \in CalledNames
    /\ name \in DOMAIN gradio_ui
    /\ gradio_ui[name].callable
    /\ thr' = [thr EXCEPT ![t] =
                 [Idle EXCEPT !.pc = "orig", !.name = name,
                              !.layers = gradio_ui[name].layers,
                              !.depth = gradio_ui[name].layers,
                              !.runsAtCall = patchRuns,
                              !.sent = a,
                              !.invocations = Deliver(a, gradio_ui[name].layers)]]
    /\ calls' = calls + 1
    /\ UNCHANGED << importOutcome, gradio_ui, gradio_ui0, pc, escaped, patchRuns,
                    setattrs, stdout, tagsDue >>

\* The library's function returns value.
OrigReturn(t, value) ==
    /\ thr[t].pc = "orig"
    /\ LET o == [kind |-> "return", val |-> value]
       IN  thr' = [thr EXCEPT ![t].origOut = o, ![t].out = o,
                              ![t].pc = After(o, thr[t].depth),
                              ![t].name = "", ![t].sent = NoArgs,
                              ![t].invocations = <<>>]
    /\ UNCHANGED << importOutcome, gradio_ui, gradio_ui0, pc, escaped, patchRuns,
                    setattrs, stdout, calls, tagsDue >>

\* The library's function raises exc.
OrigRaise(t, exc) ==
    /\ thr[t].pc = "orig"
    /\ LET o == [kind |-> "raise", val |-> [type |-> exc, v |-> <<>>]]
       IN  thr' = [thr EXCEPT ![t].origOut = o, ![t].out = o,
                              ![t].pc = After(o, thr[t].depth),
                              ![t].name = "", ![t].sent = NoArgs,
                              ![t].invocations = <<>>]
    /\ UNCHANGED << importOutcome, gradio_ui, gradio_ui0, pc, escaped, patchRuns,
                    setattrs, stdout, calls, tagsDue >>

\* func(*args, **kwargs) raised inside the innermost waiting wrapper, which
\* has no handler.
WrapperRaise(t) ==
    /\ thr[t].pc = "raise"
    /\ LET o == OnRaise(thr[t].out)
           d == thr[t].depth - 1
       IN  thr' = [thr EXCEPT ![t].out = o, ![t].depth = d, ![t].pc = After(o, d),
                              ![t].frameResult = NoOutcome,
                              ![t].frameMatches = 0, ![t].frameWrote = <<>>]
    /\ UNCHANGED << importOutcome, gradio_ui, gradio_ui0, pc, escaped, patchRuns,
                    setattrs, stdout, calls, tagsDue >>

\* result = func(*args, **kwargs) returned inside the innermost waiting
\* wrapper.  It evaluates its if condition; when the condition is false it
\* returns result at once, otherwise it enters print().
WrapperCheck(t) ==
    /\ thr[t].pc = "check"
    /\ LET result == thr[t].out.val
           o == [kind |-> "return", val |-> ReturnValue(result)]
           d == thr[t].depth - 1
       IN  thr' = IF ShouldPrint(result)
                  THEN [thr EXCEPT ![t].pc = "print_text",
                                   ![t].frameResult = thr[t].out,
                                   ![t].frameMatches = MatchesPerformed(result),
                                   ![t].frameWrote = <<>>]
                  ELSE [thr EXCEPT ![t].out = o, ![t].depth = d, ![t].pc = After(o, d),
                                   ![t].frameResult = thr[t].out,
                                   ![t].frameMatches = MatchesPerformed(result),
                                   ![t].frameWrote = <<>>]
    /\ UNCHANGED << importOutcome, gradio_ui, gradio_ui0, pc, escaped, patchRuns,
                    setattrs, stdout, calls, tagsDue >>

\* print(): the text is written to standard output.
PrintText(t) ==
    /\ thr[t].pc = "print_text"
    /\ LET chars == Text(thr[t].out.val)
       IN  /\ stdout' = Write(stdout, chars)
           /\ thr' = [thr EXCEPT ![t].pc = "print_end",
                                 ![t].frameWrote = @ \o chars,
                                 ![t].wrote = @ \o chars]
    /\ UNCHANGED << importOutcome, gradio_ui, gradio_ui0, pc, escaped, patchRuns,
                    setattrs, calls, tagsDue >>

\* print(): the end of the line is written in a write of its own and the
\* stream is flushed; the wrapper then returns result.
PrintEnd(t) ==
    /\ thr[t].pc = "print_end"
    /\ stdout' = Write(stdout, End)
    /\ LET o == [kind |-> "return", val |-> ReturnValue(thr[t].out.val)]
           d == thr[t].depth - 1
       IN  thr' = [thr EXCEPT ![t].out = o, ![t].depth = d, ![t].pc = After(o, d),
                              ![t].frameWrote = @ \o End,
                              ![t].wrote = @ \o End]
    /\ UNCHANGED << importOutcome, gradio_ui, gradio_ui0, pc, escaped, patchRuns,
                    setattrs, calls, tagsDue >>

\* The tagged lines a completed call owed: one per wrapper when the library's
\* function returned a string that the pattern matches in full.
Owed(c) ==
    IF c.origOut.kind = "return" /\ ShouldPrint(c.origOut.val) THEN c.layers ELSE 0

\* The host takes the outcome of the call and goes on.
Finish(t) ==
    /\ thr[t].pc = "done"
    /\ tagsDue' = tagsDue + Owed(thr[t])
    /\ thr' = [thr EXCEPT ![t] = Idle]
    /\ UNCHANGED << importOutcome, gradio_ui, gradio_ui0, pc, escaped, patchRuns,
                    setattrs, stdout, calls >>

Next ==
    \/ Load
    \/ \E t \in Threads, name \in CalledNames, a \in CallArgs : Call(t, name, a)
    \/ \E t \in Threads, value \in ReturnValues : OrigReturn(t, value)
    \/ \E t \in Threads, exc \in RaisedExceptions : OrigRaise(t, exc)
    \/ \E t \in Threads : WrapperRaise(t)
    \/ \E t \in Threads : WrapperCheck(t)
    \/ \E t \in Threads : PrintText(t)
    \/ \E t \in Threads : PrintEnd(t)
    \/ \E t \in Threads : Finish(t)

\* The script is loaded once and the host then calls into the module.
Spec == Init /\ [][Next]_vars

\* A call made while no other call is in progress.
CallAlone(t, name, a) ==
    /\ \A u \in Threads : thr[u].pc = "idle"
    /\ Call(t, name, a)

NextTwice ==
    \/ Load
    \/ PatchAgain
    \/ \E t \in Threads, name \in CalledNames, a \in CallArgs : CallAlone(t, name, a)
    \/ \E t \in Threads, value \in ReturnValues : OrigReturn(t, value)
    \/ \E t \in Threads, exc \in RaisedExceptions : OrigRaise(t, exc)
    \/ \E t \in Threads : WrapperRaise(t)
    \/ \E t \in Threads : WrapperCheck(t)
    \/ \E t \in Threads : PrintText(t)
    \/ \E t \in Threads : PrintEnd(t)
    \/ \E t \in Threads : Finish(t)

\* The patch procedure is applied again after the load, at any moment, and
\* the host makes its calls one at a time.
SpecTwice == Init /\ [][NextTwice]_vars

\* ------------------------------------------------------------------ claims
LowerHexDigits == {"0", "1", "2", "3", "4", "5", "6", "7", "8", "9", "a", "b", "c", "d", "e", "f"}

UpperHexDigits == {"0", "1", "2", "3", "4", "5", "6", "7", "8", "9", "A", "B", "C", "D", "E", "F"}

\* r is a string of 36 characters, hyphens at positions 9, 14, 19 and 24 and
\* hexadecimal digits of either case everywhere else.
IsCanonicalTaskId(r) ==
    /\ r.type = "str"
    /\ Len(r.v) = 36
    /\ \A i \in 1..36 :
         IF i \in {9, 14, 19, 24} THEN r.v[i] = "-"
         ELSE r.v[i] \in LowerHexDigits \cup UpperHexDigits

\* The line "docling_task_id=<r>" with its newline.
TaggedLine(r) == Tag \o r.v \o << "\n" >>

RECURSIVE Repeat(_, _)
Repeat(chars, k) == IF k = 0 THEN <<>> ELSE chars \o Repeat(chars, k - 1)

\* The wrapper frame thread t was last in has run to its end.
FrameEnded(t) ==
    /\ thr[t].pc \in {"check", "raise", "done"}
    /\ thr[t].frameResult.kind = "return"

\* C1: a wrapper whose function returned r wrote exactly the one line
\* "docling_task_id=r" when r is a string that is a canonical UUID in either
\* letter case, and wrote nothing for any other string and for any value
\* that is not a string.
C1_LineIffCanonicalString ==
    \A t \in Threads :
        FrameEnded(t) =>
            thr[t].frameWrote = IF IsCanonicalTaskId(thr[t].frameResult.val)
                                THEN TaggedLine(thr[t].frameResult.val)
                                ELSE <<>>

C1_Witness ==
    \E t \in Threads :
        /\ thr[t].pc = "done"
        /\ thr[t].layers = 1
        /\ thr[t].frameResult.val = Str(UuidUpper)
        /\ thr[t].frameWrote = TaggedLine(Str(UuidUpper))

\* C2: when the library's function returned normally, the caller of the
\* wrapped function receives exactly the value it returned, whether or not
\* the value matched.
C2_ReturnValueUnchanged ==
    \A t \in Threads :
        (thr[t].pc = "done" /\ thr[t].origOut.kind = "return") =>
            thr[t].out = thr[t].origOut

C2_Witness ==
    \E t \in Threads :
        /\ thr[t].pc = "done"
        /\ thr[t].layers = 1
        /\ thr[t].origOut = [kind |-> "return", val |-> Str(UuidLower)]
        /\ thr[t].out = thr[t].origOut
        /\ thr[t].wrote # <<>>

\* C3: when the library's function raised, the caller of the wrapped function
\* receives the same exception and the call wrote nothing to standard output.
C3_ExceptionPropagates ==
    \A t \in Threads :
        (thr[t].pc = "done" /\ thr[t].origOut.kind = "raise") =>
            /\ thr[t].out = thr[t].origOut
            /\ thr[t].wrote = <<>>

C3_Witness ==
    \E t \in Threads :
        /\ thr[t].pc = "done"
        /\ thr[t].layers = 1
        /\ thr[t].origOut.kind = "raise"
        /\ thr[t].out.val.type = "ValueError"

\* No binding of the module was touched.
Untouched ==
    /\ gradio_ui = gradio_ui0
    /\ \A n \in AttrNames : setattrs[n] = 0

\* C4, as first stated: whatever makes the import fail, the patch step
\* returns without raising and no attribute is modified.
C4_AnyImportFailureSilent ==
    (pc # "start" /\ importOutcome # "ok") =>
        /\ pc = "loaded"
        /\ escaped = "none"
        /\ Untouched

\* C4, amended: when the import fails no attribute is modified; the patch
\* step returns without raising when the failure is an instance of Exception,
\* and a failure that is not (KeyboardInterrupt, SystemExit) leaves the patch
\* step as raised.
C4_ImportFailureSilentForException ==
    (pc # "start" /\ importOutcome # "ok") =>
        /\ Untouched
        /\ importOutcome \in {"ModuleNotFoundError", "RuntimeError"}
              => (pc = "loaded" /\ escaped = "none")
        /\ importOutcome \notin {"ModuleNotFoundError", "RuntimeError"}
              => (pc = "raised" /\ escaped = importOutcome)

C4_Witness ==
    /\ pc = "loaded"
    /\ importOutcome = "RuntimeError"
    /\ "process_url" \in DOMAIN gradio_ui
    /\ gradio_ui["process_url"] = Function("process_url")

\* C5: when the import succeeds the patch step does not raise, and each of
\* process_url and process_file is handled on its own: a missing name stays
\* missing, a value that is not callable stays bound, and a callable is
\* rebound to one wrapper of it.
C5_EachNameOnItsOwn ==
    (pc # "start" /\ importOutcome = "ok") =>
        /\ pc = "loaded"
        /\ escaped = "none"
        /\ \A n \in {"process_url", "process_file"} :
             /\ n \notin DOMAIN gradio_ui0 => n \notin DOMAIN gradio_ui
             /\ n \in DOMAIN gradio_ui0 =>
                  /\ n \in DOMAIN gradio_ui
                  /\ gradio_ui[n] = IF gradio_ui0[n].callable
                                    THEN [callable |-> TRUE, target |-> n, layers |-> 1]
                                    ELSE gradio_ui0[n]

C5_Witness ==
    /\ pc = "loaded"
    /\ importOutcome = "ok"
    /\ "process_url" \in DOMAIN gradio_ui0
    /\ gradio_ui0["process_url"] = NotCallable
    /\ "process_file" \in DOMAIN gradio_ui
    /\ gradio_ui["process_file"].layers = 1

\* C6: after k applications of the patch procedure each patched function is
\* under k wrappers (two after two); a call still hands its caller the
\* outcome of the library's function, value or exception, and writes one
\* tagged line per wrapper when the value is a canonical UUID string and
\* nothing otherwise.
C6_DoubleWrapping ==
    /\ (pc = "loaded" /\ importOutcome = "ok") =>
          \A n \in {"process_url", "process_file"} :
              (n \in DOMAIN gradio_ui0 /\ gradio_ui0[n].callable) =>
                  gradio_ui[n] = [callable |-> TRUE, target |-> n, layers |-> patchRuns]
    /\ \A t \in Threads :
          thr[t].pc = "done" =>
              /\ thr[t].out = thr[t].origOut
              /\ thr[t].wrote =
                    IF thr[t].origOut.kind = "return" /\ IsCanonicalTaskId(thr[t].origOut.val)
                    THEN Repeat(TaggedLine(thr[t].origOut.val), thr[t].runsAtCall)
                    ELSE <<>>

C6_Witness ==
    \E t \in Threads :
        /\ patchRuns = 2
        /\ thr[t].pc = "done"
        /\ thr[t].runsAtCall = 2
        /\ thr[t].out = [kind |-> "return", val |-> Str(UuidLower)]
        /\ thr[t].wrote = TaggedLine(Str(UuidLower)) \o TaggedLine(Str(UuidLower))

\* C7: while the library's function runs for a call of the wrapper, it has
\* been called once, with the positional and keyword arguments the wrapper
\* was called with; and a wrapper makes at most one pattern match.
C7_ArgumentsForwardedOnce ==
    \A t \in Threads :
        /\ thr[t].pc = "orig" => thr[t].invocations = << thr[t].sent >>
        /\ thr[t].frameMatches <= 1

C7_Witness ==
    \E t \in Threads :
        /\ thr[t].pc = "orig"
        /\ thr[t].layers = 1
        /\ thr[t].sent.kwargs # <<>>
        /\ thr[t].invocations = << thr[t].sent >>

\* The namespace one run of the patch step leaves.
PatchedOnce ==
    [n \in DOMAIN gradio_ui0 |->
        IF importOutcome = "ok" /\ n \in {"process_url", "process_file"} /\ gradio_ui0[n].callable
        THEN [callable |-> TRUE, target |-> n, layers |-> 1]
        ELSE gradio_ui0[n]]

\* C8: the patch step runs once, when the script is loaded; it writes each
\* binding at most once, and from then on the bindings stay as that run left
\* them, whatever calls are made.
C8_InstalledOnce ==
    /\ patchRuns <= 1
    /\ \A n \in AttrNames : setattrs[n] <= 1
    /\ pc # "start" =>
          /\ patchRuns = 1
          /\ gradio_ui = PatchedOnce

C8_Witness ==
    /\ pc = "loaded"
    /\ calls >= 2
    /\ \A t \in Threads : thr[t].pc = "idle"
    /\ stdout # <<>>
    /\ setattrs["process_url"] = 1
    /\ gradio_ui["process_url"].layers = 1

\* The positions of the newlines of a stream: each ends a line.
LineEnds(stream) == {i \in 1..Len(stream) : stream[i] = "\n"}

\* The line that the newline at position i ends: the characters after the
\* newline before it, or from the start of the stream.
LineEndingAt(stream, i) ==
    LET before == {j \in LineEnds(stream) : j < i}
        start  == IF before = {} THEN 1
                  ELSE 1 + CHOOSE j \in before : \A k \in before : k <= j
    IN  SubSeq(stream, start, i - 1)

\* A line is the tag followed by a canonical UUID and nothing else.
IsTaggedLine(line) ==
    /\ Len(line) = Len(Tag) + 36
    /\ SubSeq(line, 1, Len(Tag)) = Tag
    /\ IsCanonicalTaskId(Str(SubSeq(line, Len(Tag) + 1, Len(line))))

\* The number of lines of a stream that are tagged lines.
TaggedLines(stream) ==
    Cardinality({i \in LineEnds(stream) : IsTaggedLine(LineEndingAt(stream, i))})

\* C9: once all calls have completed, standard output holds as many tagged
\* lines as calls returned a matching string, however the calls interleaved.
C9_OneTaggedLinePerMatchingCall ==
    (\A t \in Threads : thr[t].pc = "idle") => TaggedLines(stdout) = tagsDue

\* C10: the patch step adds no attribute to the module and leaves every
\* attribute other than process_url and process_file bound as it was.
C10_OtherAttributesUntouched ==
    /\ DOMAIN gradio_ui = DOMAIN gradio_ui0
    /\ \A n \in DOMAIN gradio_ui \ {"process_url", "process_file"} :
          /\ gradio_ui[n] = gradio_ui0[n]
          /\ setattrs[n] = 0

C10_Witness ==
    /\ pc = "loaded"
    /\ importOutcome = "ok"
    /\ "process_file" \notin DOMAIN gradio_ui
    /\ gradio_ui["process_url"].layers = 1
    /\ gradio_ui["wait_task_finish"] = Function("wait_task_finish")

====
